---- MODULE Spec2Model ----
(***************************************************************************)
(* Model of the seat-allocation and scenario-simulation core of            *)
(* analisis_electoral (dhondt.py, simulation.py).                          *)
(*                                                                         *)
(* Conventions.                                                            *)
(*  - A Python str is a sequence of one-character strings, so that         *)
(*    upper(), strip(), join() and the lexicographic order are computed    *)
(*    and not assumed.                                                     *)
(*  - A Python float is an exact rational [n |-> numerator, d |-> denom.]  *)
(*    with d > 0; IEEE rounding is not modelled.                           *)
(*  - A dict / Counter is a function whose DOMAIN is its key set.          *)
(***************************************************************************)
EXTENDS Integers, Sequences, FiniteSets, TLC

VARIABLES
    pc,                    \* position of the modelled call
    pacts,                 \* dhondt_allocation / _merge_pacts: the contestant list
    seats,                 \* seats to allocate
    allocation,            \* mapping returned by dhondt_allocation
    prev,                  \* the previous call (inputs, result, what was changed)
    merged_pacts,          \* the scenario's alliance list (PactResult with int votes)
    merged_label,          \* code of the synthetic alliance
    baseline_seats,        \* _indifference_loss_percentage: baseline_seats
    current_merged_seats,  \* _indifference_loss_percentage: current_merged_seats
    low,                   \* binary search: low
    high,                  \* binary search: high
    steps,                 \* binary search: iterations of the for loop run so far
    loss,                  \* value returned by the indifference-loss solver
    loss_fraction,         \* _pacts_with_vote_loss: loss_fraction
    scenario,              \* list returned by _pacts_with_vote_loss
    raised,                \* exception raised by the call, "none" if it returned
    circunscripciones,     \* _national_indifference_loss: the _NationalScenario list
    baseline_total,        \* _national_indifference_loss: baseline_total
    current_total,         \* _national_indifference_loss: current_total
    pact_a,                \* main: args.pact_a
    pact_b,                \* main: args.pact_b
    merged_original_codes, \* main: codes of the alliances _merge_pacts merged
    pact,                  \* _select_winners_from_pact: the alliance
    winners,               \* list returned by _select_winners_from_pact
    index,                 \* main: districts of the for loop already handled
    summary_official,      \* main: Counter of the official seats per alliance
    summary_scenario,      \* main: Counter of the scenario seats per alliance
    summary_scenario_by_origin, \* main: scenario seats by original alliance
    summary_breakdowns,    \* main: merged label -> Counter of origins
    pact_names,            \* main: alliance code -> display name
    processed_any,         \* main: a district went through the merge
    national_entries,      \* main: the _NationalScenario list
    national_baseline_seats, \* main: sum of combined_original_seats
    national_scenario_seats, \* main: sum of merged_seats
    national_merged_votes, \* main: sum of the merged alliances' votes
    main_circunscripciones, \* main: circunscripciones, the districts loaded
    module_pc,             \* execution of simulation.py's module body
    dunder_name,           \* __name__ of the executing module
    defined                \* module-level names bound so far

dhondtVars == <<pacts, allocation, prev>>
lossVars == <<merged_pacts, merged_label, baseline_seats, current_merged_seats,
              low, high, steps, loss>>
voteLossVars == <<loss_fraction, scenario>>

nationalVars == <<circunscripciones, baseline_total, current_total>>

mergeVars == <<pact_a, pact_b, merged_original_codes>>
winnerVars == <<pact, winners>>
mainVars == <<index, summary_official, summary_scenario, summary_scenario_by_origin,
              summary_breakdowns, pact_names, processed_any, national_entries,
              national_baseline_seats, national_scenario_seats,
              national_merged_votes, main_circunscripciones>>
scriptVars == <<module_pc, dunder_name, defined>>

vars == <<pc, seats, raised, dhondtVars, lossVars, voteLossVars, nationalVars,
          mergeVars, winnerVars, mainVars, scriptVars>>

None == "None"

----------------------------------------------------------------------------
(* Bounds of the explored inputs *)

MaxVotes == 3
MaxSeats == 3
MaxLossVotes == 3
MaxLossSeats == 2
LossGrid == 4
MaxNatVotes == 1
MaxNatSeats == 2
MaxDistricts == 2
MaxMergeVotes == 2
MaxCandVotes == 3
MaxCandidates == 4
MaxWinSeats == 2

\* for _ in range(60)
MaxIterations == 60
\* tolerance = 1e-4
Tolerance == [n |-> 1, d |-> 10000]

----------------------------------------------------------------------------
(* Python str *)

\* the characters used by the model, in code-point order
Alphabet == <<" ", "(", ")", "+", "-",
              "A", "B", "C", "D", "I", "N", "O", "P", "R", "S", "T", "X",
              "a", "b", "c", "d", "i", "n", "o", "p", "r", "s", "t", "x">>

Ord(c) == CHOOSE i \in 1..Len(Alphabet) : Alphabet[i] = c

\* str < str : lexicographic by code point, a proper prefix is smaller
StrLess(s, t) ==
    \E k \in 1..(Len(t)) :
        /\ \A j \in 1..(k - 1) : j <= Len(s) /\ s[j] = t[j]
        /\ \/ Len(s) = k - 1
           \/ Len(s) >= k /\ Ord(s[k]) < Ord(t[k])

\* str.upper() on one character
UpperChar(c) ==
    CASE c = "a" -> "A" [] c = "b" -> "B" [] c = "c" -> "C" [] c = "d" -> "D"
      [] c = "i" -> "I" [] c = "n" -> "N" [] c = "o" -> "O" [] c = "p" -> "P"
      [] c = "r" -> "R" [] c = "s" -> "S" [] c = "t" -> "T" [] c = "x" -> "X"
      [] OTHER -> c

\* str.upper()
StrUpper(s) == [i \in 1..Len(s) |-> UpperChar(s[i])]

\* str.strip(): leading and trailing whitespace removed
RECURSIVE LStrip(_)
LStrip(s) == IF s # <<>> /\ Head(s) = " " THEN LStrip(Tail(s)) ELSE s

RECURSIVE RStrip(_)
RStrip(s) ==
    IF s # <<>> /\ s[Len(s)] = " " THEN RStrip(SubSeq(s, 1, Len(s) - 1)) ELSE s

Strip(s) == RStrip(LStrip(s))

\* sep.join(parts)
RECURSIVE Join(_, _)
Join(sep, parts) ==
    IF parts = <<>> THEN <<>>
    ELSE IF Len(parts) = 1 THEN parts[1]
    ELSE parts[1] \o sep \o Join(sep, Tail(parts))

----------------------------------------------------------------------------
(* Python float as an exact rational *)

RECURSIVE GCD(_, _)
GCD(a, b) == IF b = 0 THEN a ELSE GCD(b, a % b)

Abs(x) == IF x < 0 THEN -x ELSE x

Norm(n, d) ==
    LET g == GCD(Abs(n), d) IN [n |-> n \div g, d |-> d \div g]

Float(i) == [n |-> i, d |-> 1]

\* sign of a/b - c/d for a, c >= 0 and b, d > 0, without forming a*d
RECURSIVE FracCmp(_, _, _, _)
FracCmp(a, b, c, d) ==
    LET q1 == a \div b
        q2 == c \div d
        r1 == a % b
        r2 == c % d
    IN  IF q1 # q2 THEN (IF q1 < q2 THEN -1 ELSE 1)
        ELSE IF r1 = 0 /\ r2 = 0 THEN 0
        ELSE IF r1 = 0 THEN -1
        ELSE IF r2 = 0 THEN 1
        ELSE FracCmp(d, r2, b, r1)

\* sign of x - y for rationals of any sign
FCmp(x, y) ==
    IF x.n < 0 /\ y.n >= 0 THEN -1
    ELSE IF x.n >= 0 /\ y.n < 0 THEN 1
    ELSE IF x.n < 0 THEN FracCmp(-y.n, y.d, -x.n, x.d)
    ELSE FracCmp(x.n, x.d, y.n, y.d)

FLess(x, y) == FCmp(x, y) < 0
FLeq(x, y) == FCmp(x, y) <= 0

FAdd(x, y) == Norm(x.n * y.d + y.n * x.d, x.d * y.d)
FSub(x, y) == Norm(x.n * y.d - y.n * x.d, x.d * y.d)
FMul(x, y) == Norm(x.n * y.n, x.d * y.d)
\* x / y for y > 0
FDiv(x, y) == Norm(x.n * y.d, x.d * y.n)

----------------------------------------------------------------------------
(* list helpers *)

\* a slice that is one too long
TakeOneMore(seq, k) == SubSeq(seq, 1, IF k + 1 < Len(seq) THEN k + 1 ELSE Len(seq))

\* seq[:k] for k >= 0
Take(seq, k) == SubSeq(seq, 1, IF k < Len(seq) THEN k ELSE Len(seq))

RECURSIVE Concat(_)
Concat(seqs) == IF seqs = <<>> THEN <<>> ELSE Head(seqs) \o Concat(Tail(seqs))

\* mapping.get(key, 0)
Get(mapping, key) == IF key \in DOMAIN mapping THEN mapping[key] ELSE 0

\* Counter(items) as a dict
CounterOf(items) ==
    [k \in {items[i] : i \in 1..Len(items)} |->
        Cardinality({i \in 1..Len(items) : items[i] = k})]

RECURSIVE SumSeq(_)
SumSeq(s) == IF s = <<>> THEN 0 ELSE Head(s) + SumSeq(Tail(s))

----------------------------------------------------------------------------
(* dhondt.py *)

\* a guard that lets the contestants without votes through: if votes < 0
PactQuotientsZeroIncluded(contestant, n) ==
    IF contestant.votes.n < 0 THEN <<>>
    ELSE [divisor \in 1..n |->
            [pact_code |-> contestant.code,
             quotient  |-> FDiv(contestant.votes, Float(divisor)),
             divisor   |-> divisor,
             raw_votes |-> contestant.votes]]

\* the quotients of one contestant: none when votes <= 0
PactQuotients(contestant, n) ==
    IF contestant.votes.n <= 0 THEN <<>>
    ELSE [divisor \in 1..n |->
            [pact_code |-> contestant.code,
             quotient  |-> FDiv(contestant.votes, Float(divisor)),
             divisor   |-> divisor,
             raw_votes |-> contestant.votes]]

\* a sort key that keeps the sign of the raw votes: among equal quotients the
\* smaller raw total first
SeatKeyLessFewerVotesFirst(a, b) ==
    LET q == FCmp(a.quotient, b.quotient)
        r == FCmp(a.raw_votes, b.raw_votes)
    IN  \/ q > 0
        \/ q = 0 /\ r < 0
        \/ q = 0 /\ r = 0 /\ StrLess(a.pact_code, b.pact_code)

\* a sort key with its last two parts exchanged: among equal quotients the
\* identifier first
SeatKeyLessCodeFirst(a, b) ==
    LET q == FCmp(a.quotient, b.quotient)
        r == FCmp(a.raw_votes, b.raw_votes)
    IN  \/ q > 0
        \/ q = 0 /\ StrLess(a.pact_code, b.pact_code)
        \/ q = 0 /\ a.pact_code = b.pact_code /\ r > 0

\* a sort key that forgets the identifier
SeatKeyLessNoCode(a, b) ==
    LET q == FCmp(a.quotient, b.quotient)
        r == FCmp(a.raw_votes, b.raw_votes)
    IN  \/ q > 0
        \/ q = 0 /\ r > 0

\* a sort key without the minus signs: smallest quotient first
SeatKeyLessAscending(a, b) ==
    LET q == FCmp(a.quotient, b.quotient)
        r == FCmp(a.raw_votes, b.raw_votes)
    IN  \/ q < 0
        \/ q = 0 /\ r < 0
        \/ q = 0 /\ r = 0 /\ StrLess(a.pact_code, b.pact_code)

\* key = (-quotient, -raw_votes, pact_code)
SeatKeyLess(a, b) ==
    LET q == FCmp(a.quotient, b.quotient)
        r == FCmp(a.raw_votes, b.raw_votes)
    IN  \/ q > 0
        \/ q = 0 /\ r > 0
        \/ q = 0 /\ r = 0 /\ StrLess(a.pact_code, b.pact_code)

\* quotients.sort(key=...): list.sort is stable, so x goes behind the entries
\* before it whose key is not greater
RECURSIVE InsertSeat(_, _)
InsertSeat(x, sorted) ==
    IF sorted = <<>> THEN <<x>>
    ELSE IF SeatKeyLess(x, Head(sorted)) THEN <<x>> \o sorted
    ELSE <<Head(sorted)>> \o InsertSeat(x, Tail(sorted))

RECURSIVE SortSeats(_)
SortSeats(s) ==
    IF s = <<>> THEN <<>>
    ELSE InsertSeat(s[Len(s)], SortSeats(SubSeq(s, 1, Len(s) - 1)))

\* the identifiers of quotients[:seats] after the sort, best quotient first;
\* the contestants are records [code, votes] with votes a rational
WinningCodes(contestants, n) ==
    LET quotients == Concat([i \in 1..Len(contestants) |->
                                PactQuotients(contestants[i], n)])
        sorted    == SortSeats(quotients)
        top       == Take(sorted, n)
    IN  [i \in 1..Len(top) |-> top[i].pact_code]

dhondt_allocation(contestants, n) == CounterOf(WinningCodes(contestants, n))

\* PactResult.votes is an int; the allocator divides it as a float
AsFloatVotes(ps) == [i \in 1..Len(ps) |-> [code |-> ps[i].code, votes |-> Float(ps[i].votes)]]

SumOfSeats(mapping) ==
    LET RECURSIVE S(_)
        S(keys) == IF keys = {} THEN 0
                   ELSE LET k == CHOOSE x \in keys : TRUE
                        IN mapping[k] + S(keys \ {k})
    IN  S(DOMAIN mapping)

----------------------------------------------------------------------------
(* Inputs of the allocator: contestants with distinct identifiers *)

ContestantCodes == {<<"A">>, <<"B">>, <<"a">>}

\* injective sequences over a set
RECURSIVE Arrangements(_)
Arrangements(S) ==
    {<<>>} \cup UNION {{<<x>> \o t : t \in Arrangements(S \ {x})} : x \in S}

ContestantLists ==
    UNION {
        {[i \in 1..Len(cs) |-> [code |-> cs[i], votes |-> v[i]]] :
            v \in [1..Len(cs) -> (-1)..MaxVotes]}
        : cs \in Arrangements(ContestantCodes)}

NoPrev == [kind |-> "none"]

Zero == Float(0)
One == Float(1)

DhondtIdle ==
    /\ pacts = <<>>
    /\ allocation = <<>>
    /\ prev = NoPrev

LossIdle ==
    /\ merged_pacts = <<>>
    /\ merged_label = <<>>
    /\ baseline_seats = 0
    /\ current_merged_seats = 0
    /\ low = Zero
    /\ high = One
    /\ steps = 0
    /\ loss = Zero

VoteLossIdle ==
    /\ loss_fraction = Zero
    /\ scenario = <<>>

NationalIdle ==
    /\ circunscripciones = <<>>
    /\ baseline_total = 0
    /\ current_total = 0

MergeIdle ==
    /\ pact_a = <<>>
    /\ pact_b = <<>>
    /\ merged_original_codes = <<>>

WinnersIdle ==
    /\ pact = <<>>
    /\ winners = <<>>

\* main, lines 63-72: the accumulators before the loop
MainStart ==
    /\ index = 0
    /\ summary_official = <<>>
    /\ summary_scenario = <<>>
    /\ summary_scenario_by_origin = <<>>
    /\ summary_breakdowns = <<>>
    /\ pact_names = <<>>
    /\ processed_any = FALSE
    /\ national_entries = <<>>
    /\ national_baseline_seats = 0
    /\ national_scenario_seats = 0
    /\ national_merged_votes = 0

MainIdle ==
    /\ MainStart
    /\ main_circunscripciones = <<>>

\* the module-level names of simulation.py that main reaches
ModuleNames == {"main", "_merge_pacts", "_select_winners_from_pact",
                "_normalize_independent_party_label", "_IND_PARTY_PATTERN"}

\* simulation.py imported as analisis_electoral.simulation: its module body
\* has run to the end
ScriptIdle ==
    /\ module_pc = "loaded"
    /\ dunder_name = "analisis_electoral.simulation"
    /\ defined = ModuleNames

InitDhondt ==
    /\ pc = "call"
    /\ pacts \in ContestantLists
    /\ seats \in 0..MaxSeats
    /\ allocation = <<>>
    /\ prev = NoPrev
    /\ raised = "none"
    /\ LossIdle
    /\ VoteLossIdle
    /\ NationalIdle
    /\ MergeIdle
    /\ WinnersIdle
    /\ MainIdle
    /\ ScriptIdle

\* allocation = dhondt_allocation(pacts, seats)
Allocate ==
    /\ pc = "call"
    /\ allocation' = dhondt_allocation(AsFloatVotes(pacts), seats)
    /\ pc' = "returned"
    /\ UNCHANGED <<pacts, seats, prev, raised, lossVars, voteLossVars, nationalVars, mergeVars, winnerVars,
                   mainVars, scriptVars>>

\* a second call in which contestant i has more votes, all else fixed
RaiseVotes ==
    /\ pc = "returned"
    /\ prev.kind = "none"
    /\ \E i \in 1..Len(pacts) : \E v \in (pacts[i].votes + 1)..MaxVotes :
        /\ prev' = [kind |-> "raise", pacts |-> pacts, allocation |-> allocation,
                    code |-> pacts[i].code]
        /\ pacts' = [pacts EXCEPT ![i].votes = v]
    /\ pc' = "call"
    /\ allocation' = <<>>
    /\ UNCHANGED <<seats, raised, lossVars, voteLossVars, nationalVars, mergeVars, winnerVars,
                   mainVars, scriptVars>>

\* a second call with the same contestants listed in another order
Reorder ==
    /\ pc = "returned"
    /\ prev.kind = "none"
    /\ \E perm \in Arrangements(1..Len(pacts)) :
        /\ Len(perm) = Len(pacts)
        /\ perm # [i \in 1..Len(pacts) |-> i]
        /\ prev' = [kind |-> "reorder", pacts |-> pacts, allocation |-> allocation]
        /\ pacts' = [i \in 1..Len(pacts) |-> pacts[perm[i]]]
    /\ pc' = "call"
    /\ allocation' = <<>>
    /\ UNCHANGED <<seats, raised, lossVars, voteLossVars, nationalVars, mergeVars, winnerVars,
                   mainVars, scriptVars>>

NextDhondt == Allocate \/ RaiseVotes \/ Reorder

SpecDhondt == InitDhondt /\ [][NextDhondt]_vars

PositiveContestants == {i \in 1..Len(pacts) : pacts[i].votes > 0}

Min(a, b) == IF a < b THEN a ELSE b

\* C1 as stated: the seat counts returned by dhondt_allocation sum to
\* min(seats, number of contestants with votes > 0) and none is negative.
C1_SumIsMinSeatsContestants ==
    pc = "returned" =>
        /\ SumOfSeats(allocation) = Min(seats, Cardinality(PositiveContestants))
        /\ \A k \in DOMAIN allocation : allocation[k] >= 0

\* C1 amended: the seat counts returned by dhondt_allocation sum to seats
\* when at least one contestant has votes > 0 and to 0 when none has, and
\* none is negative.
C1_SumIsSeatsOrZero ==
    pc = "returned" =>
        /\ SumOfSeats(allocation) = (IF PositiveContestants # {} THEN seats ELSE 0)
        /\ \A k \in DOMAIN allocation : allocation[k] >= 0

\* more seats than positive-vote contestants, all of them awarded
C1_Witness ==
    /\ pc = "returned"
    /\ Cardinality(PositiveContestants) = 2
    /\ seats = 3
    /\ SumOfSeats(allocation) = 3

\* C14: every key of the mapping returned by dhondt_allocation is the
\* identifier of a contestant with votes > 0 and maps to at least 1; a
\* contestant with zero or negative votes has no key, and seats = 0 gives the
\* empty mapping.
C14_KeysArePositiveContestants ==
    pc = "returned" =>
        /\ \A k \in DOMAIN allocation :
            /\ allocation[k] >= 1
            /\ \E i \in PositiveContestants : pacts[i].code = k
        /\ \A i \in 1..Len(pacts) :
            pacts[i].votes <= 0 => pacts[i].code \notin DOMAIN allocation
        /\ seats = 0 => allocation = <<>>

\* one contestant with votes takes every seat beside one with zero votes and
\* one with negative votes
C14_Witness ==
    /\ pc = "returned"
    /\ seats >= 2
    /\ \E i, j, k \in 1..Len(pacts) :
        /\ pacts[i].votes > 0
        /\ pacts[j].votes = 0
        /\ pacts[k].votes < 0
        /\ allocation = (pacts[i].code :> seats)

\* the quotient votes/e of contestant j stands before the quotient votes/d of
\* contestant i: larger quotient, then larger raw votes, then smaller identifier
StandsBefore(j, e, i, d) ==
    LET vj == pacts[j].votes
        vi == pacts[i].votes
    IN  \/ vj * d > vi * e
        \/ vj * d = vi * e /\ vj > vi
        \/ vj * d = vi * e /\ vj = vi /\ StrLess(pacts[j].code, pacts[i].code)

\* how many pooled quotients stand before votes/d of contestant i
QuotientsBefore(i, d) ==
    Cardinality({je \in PositiveContestants \X (1..seats) :
                    StandsBefore(je[1], je[2], i, d)})

\* votes/d of contestant i is among the first seats quotients
TakesSeat(i, d) == QuotientsBefore(i, d) < seats

\* C17: dhondt_allocation awards each contestant the number of its entries
\* among the first seats pooled quotients votes/d (d = 1..seats, contestants
\* with votes > 0) ordered by quotient descending, raw votes descending and
\* identifier ascending; of two equal quotients of which one takes a seat and
\* the other does not, the seat goes to the higher raw votes and, among equal
\* raw votes, to the smaller identifier.
C17_SeatsByQuotientOrder ==
    pc = "returned" =>
        /\ \A i \in PositiveContestants :
            Get(allocation, pacts[i].code) =
                Cardinality({d \in 1..seats : TakesSeat(i, d)})
        /\ \A i, j \in PositiveContestants : \A d, e \in 1..seats :
            (/\ pacts[i].votes * e = pacts[j].votes * d
             /\ TakesSeat(i, d)
             /\ ~TakesSeat(j, e)) =>
                \/ pacts[i].votes > pacts[j].votes
                \/ /\ pacts[i].votes = pacts[j].votes
                   /\ StrLess(pacts[i].code, pacts[j].code)

\* equal quotients of two contestants meet at the last seat and the one with
\* more raw votes takes it, though its identifier is the larger
C17_Witness ==
    /\ pc = "returned"
    /\ \E i, j \in PositiveContestants : \E d, e \in 1..seats :
        /\ pacts[i].votes * e = pacts[j].votes * d
        /\ pacts[i].votes > pacts[j].votes
        /\ StrLess(pacts[j].code, pacts[i].code)
        /\ QuotientsBefore(i, d) = seats - 1
        /\ ~TakesSeat(j, e)

\* C7: raising one contestant's votes, all else fixed, never lowers the
\* seats dhondt_allocation gives that contestant.
C7_MonotonicInOwnVotes ==
    (pc = "returned" /\ prev.kind = "raise") =>
        Get(allocation, prev.code) >= Get(prev.allocation, prev.code)

\* a raise that won the contestant a seat
C7_Witness ==
    /\ pc = "returned"
    /\ prev.kind = "raise"
    /\ Get(allocation, prev.code) > Get(prev.allocation, prev.code)
    /\ Get(prev.allocation, prev.code) > 0

\* C8: for contestants with distinct identifiers, listing the same
\* (identifier, votes) pairs in another order with the same seats gives the
\* same mapping.
C8_OrderIndependent ==
    (pc = "returned" /\ prev.kind = "reorder") =>
        allocation = prev.allocation

\* a reordered call in which equal quotients and equal raw votes meet at the
\* last seat, so that only the identifier decides
C8_Witness ==
    /\ pc = "returned"
    /\ prev.kind = "reorder"
    /\ \E i, j \in 1..Len(pacts) :
        /\ pacts[i].votes = pacts[j].votes
        /\ pacts[i].votes > 0
        /\ Get(allocation, pacts[i].code) > Get(allocation, pacts[j].code)

----------------------------------------------------------------------------
(* simulation.py : the vote-loss redistribution model *)

\* positions of the alliances carrying the label; none: merged_votes stays None
MergedHits(mp, label) == {i \in 1..Len(mp) : mp[i].code = label}

\* merged_votes after the loop: the votes of the last alliance carrying the label
MergedVotesOf(mp, label) ==
    LET hits == MergedHits(mp, label)
    IN  Float(mp[CHOOSE i \in hits : \A j \in hits : j <= i].votes)

OthersOf(mp, label) == SelectSeq(mp, LAMBDA p : p.code # label)

OtherVotesTotal(others) == SumSeq([i \in 1..Len(others) |-> others[i].votes])

\* the two checks in the other order: the merged alliance looked up first
VoteLossErrorLabelFirst(mp, label, f) ==
    IF MergedHits(mp, label) = {} THEN "ValueError: merged pact not found"
    ELSE IF ~(FLeq(Zero, f) /\ FLeq(f, One)) THEN "ValueError: loss fraction out of range"
    ELSE "none"

\* the ValueError of _pacts_with_vote_loss, "none" when it returns
VoteLossError(mp, label, f) ==
    IF ~(FLeq(Zero, f) /\ FLeq(f, One)) THEN "ValueError: loss fraction out of range"
    ELSE IF MergedHits(mp, label) = {} THEN "ValueError: merged pact not found"
    ELSE "none"

\* a share taken over all the votes, the merged alliance's included
ShareOfAll(votes, other_votes_total, merged_votes) ==
    FDiv(Float(votes), FAdd(Float(other_votes_total), merged_votes))

\* share = float(pact.votes) / other_votes_total
Share(votes, other_votes_total, merged_votes) ==
    FDiv(Float(votes), Float(other_votes_total))

\* the list _pacts_with_vote_loss returns when it raises nothing
pacts_with_vote_loss(mp, label, f) ==
    LET merged_votes      == MergedVotesOf(mp, label)
        others            == OthersOf(mp, label)
        other_votes_total == OtherVotesTotal(others)
        loss_votes        == FMul(merged_votes, f)
        new_votes         == FSub(merged_votes, loss_votes)
        head              == <<[code |-> label, votes |-> new_votes]>>
    IN  IF loss_votes.n <= 0 \/ other_votes_total <= 0
        THEN head \o [i \in 1..Len(others) |->
                        [code |-> others[i].code, votes |-> Float(others[i].votes)]]
        ELSE head \o [i \in 1..Len(others) |->
                        [code  |-> others[i].code,
                         votes |-> FAdd(Float(others[i].votes),
                                        FMul(loss_votes,
                                             Share(others[i].votes, other_votes_total,
                                                   merged_votes)))]]

\* total of the votes of a list of _PactVotes
RECURSIVE FSum(_)
FSum(ps) == IF ps = <<>> THEN Zero ELSE FAdd(Head(ps).votes, FSum(Tail(ps)))

----------------------------------------------------------------------------
(* Inputs of the solver: a scenario list holding the merged alliance *)

MergedLabel == <<"A", " ", "+", " ", "B">>
OtherCodes == {<<"C">>, <<"D">>}

ScenarioCodeLists ==
    {cs \in Arrangements(OtherCodes \cup {MergedLabel}) :
        \E i \in 1..Len(cs) : cs[i] = MergedLabel}

ScenarioLists(maxVotes) ==
    UNION {
        {[i \in 1..Len(cs) |-> [code |-> cs[i], votes |-> v[i]]] :
            v \in [1..Len(cs) -> 0..maxVotes]}
        : cs \in ScenarioCodeLists}

\* the fractions handed to _pacts_with_vote_loss, some outside [0, 1]
LossFractions == {Norm(k, LossGrid) : k \in (-1)..(LossGrid + 1)}

InitVoteLoss ==
    /\ pc = "call"
    /\ seats = 0
    /\ raised = "none"
    /\ merged_pacts \in ScenarioLists(MaxLossVotes)
    /\ merged_label \in {MergedLabel, <<"X">>}
    /\ baseline_seats = 0
    /\ current_merged_seats = 0
    /\ low = Zero
    /\ high = One
    /\ steps = 0
    /\ loss = Zero
    /\ DhondtIdle
    /\ VoteLossIdle
    /\ NationalIdle
    /\ MergeIdle
    /\ WinnersIdle
    /\ MainIdle
    /\ ScriptIdle

\* scenario = _pacts_with_vote_loss(merged_pacts, merged_label, f)
PactsWithVoteLoss ==
    /\ pc = "call"
    /\ \E f \in LossFractions :
        /\ loss_fraction' = f
        /\ raised' = VoteLossError(merged_pacts, merged_label, f)
        /\ scenario' = IF raised' = "none"
                       THEN pacts_with_vote_loss(merged_pacts, merged_label, f)
                       ELSE <<>>
    /\ pc' = "returned"
    /\ UNCHANGED <<seats, dhondtVars, lossVars, nationalVars, mergeVars, winnerVars,
                   mainVars, scriptVars>>

NextVoteLoss == PactsWithVoteLoss

SpecVoteLoss == InitVoteLoss /\ [][NextVoteLoss]_vars

InputVotesTotal == SumSeq([i \in 1..Len(merged_pacts) |-> merged_pacts[i].votes])

OutputVotes(code) ==
    scenario[CHOOSE i \in 1..Len(scenario) : scenario[i].code = code].votes

----------------------------------------------------------------------------
(* simulation.py : _indifference_loss_percentage *)

\* the guard with < for <=
NoGainToEraseStrict(current, baseline) == current < baseline

\* if current_merged_seats <= baseline_seats: return 0.0
NoGainToErase(current, baseline) == current <= baseline

\* returning the other end of the interval
SearchResultLow(lo, hi) == lo

\* return high
SearchResult(lo, hi) == hi

Mid(lo, hi) == FDiv(FAdd(lo, hi), Float(2))

\* seats of the merged alliance once the fraction f of its votes is lost
MergedSeatsAt(mp, label, n, f) ==
    Get(dhondt_allocation(pacts_with_vote_loss(mp, label, f), n), label)

\* high - low <= tolerance
Converged(lo, hi) == FLeq(FSub(hi, lo), Tolerance)

InitLoss ==
    /\ pc = "call"
    /\ raised = "none"
    /\ merged_pacts \in ScenarioLists(MaxLossVotes)
    /\ merged_label = MergedLabel
    /\ seats \in 1..MaxLossSeats
    /\ baseline_seats \in 0..seats
    /\ current_merged_seats \in 0..seats
    /\ low = Zero
    /\ high = One
    /\ steps = 0
    /\ loss = Zero
    /\ DhondtIdle
    /\ VoteLossIdle
    /\ NationalIdle
    /\ MergeIdle
    /\ WinnersIdle
    /\ MainIdle
    /\ ScriptIdle

\* lines 495-500: the early return, or the start of the search
IndifferenceLossEnter ==
    /\ pc = "call"
    /\ IF NoGainToErase(current_merged_seats, baseline_seats)
       THEN /\ loss' = Zero
            /\ pc' = "returned"
       ELSE /\ loss' = loss
            /\ pc' = "search"
    /\ low' = Zero
    /\ high' = One
    /\ UNCHANGED <<seats, raised, steps, merged_pacts, merged_label, baseline_seats,
                   current_merged_seats, dhondtVars, voteLossVars, nationalVars, mergeVars, winnerVars,
                   mainVars, scriptVars>>

\* lines 501-512: one iteration of the for loop, and the return after the last
IndifferenceLossStep ==
    /\ pc = "search"
    /\ steps < MaxIterations
    /\ LET mid == Mid(low, high)
           err == VoteLossError(merged_pacts, merged_label, mid)
       IN  IF err # "none"
           THEN /\ raised' = err
                /\ pc' = "raised"
                /\ UNCHANGED <<low, high, steps, loss>>
           ELSE LET seats_mid == MergedSeatsAt(merged_pacts, merged_label, seats, mid)
                    lo == IF seats_mid > baseline_seats THEN mid ELSE low
                    hi == IF seats_mid > baseline_seats THEN high ELSE mid
                IN  /\ low' = lo
                    /\ high' = hi
                    /\ steps' = steps + 1
                    /\ raised' = raised
                    /\ IF Converged(lo, hi) \/ steps + 1 = MaxIterations
                       THEN /\ loss' = SearchResult(lo, hi)
                            /\ pc' = "returned"
                       ELSE /\ loss' = loss
                            /\ pc' = "search"
    /\ UNCHANGED <<seats, merged_pacts, merged_label, baseline_seats,
                   current_merged_seats, dhondtVars, voteLossVars, nationalVars, mergeVars, winnerVars,
                   mainVars, scriptVars>>

NextLoss == IndifferenceLossEnter \/ IndifferenceLossStep

SpecLoss == InitLoss /\ [][NextLoss]_vars

\* the merged alliance's D'Hondt seats at loss 0
ScenarioSeats ==
    Get(dhondt_allocation(AsFloatVotes(merged_pacts), seats), merged_label)

FMax(x, y) == IF FLess(x, y) THEN y ELSE x

\* C2: when _indifference_loss_percentage is called with
\* current_merged_seats > baseline_seats, current_merged_seats being the
\* merged alliance's seats at loss 0, the returned loss satisfies
\* 0 < loss <= 1, the merged alliance has at most baseline_seats seats at
\* loss and at least baseline_seats seats at max(loss - 1e-4, 0).
C2_ThresholdTight ==
    (/\ pc = "returned"
     /\ current_merged_seats > baseline_seats
     /\ current_merged_seats = ScenarioSeats) =>
        /\ FLess(Zero, loss) /\ FLeq(loss, One)
        /\ MergedSeatsAt(merged_pacts, merged_label, seats, loss) <= baseline_seats
        /\ MergedSeatsAt(merged_pacts, merged_label, seats,
                         FMax(FSub(loss, Tolerance), Zero)) >= baseline_seats

\* a search that moved both ends and stopped on the tolerance strictly
\* inside (0, 1)
C2_Witness ==
    /\ pc = "returned"
    /\ current_merged_seats > baseline_seats
    /\ current_merged_seats = ScenarioSeats
    /\ baseline_seats > 0
    /\ FLess(Zero, low)
    /\ FLess(high, One)
    /\ loss = high
    /\ steps > 1
    /\ MergedSeatsAt(merged_pacts, merged_label, seats, loss) = baseline_seats

\* C4: _indifference_loss_percentage returns exactly 0, without running a
\* search step, whenever current_merged_seats <= baseline_seats.
C4_ZeroWhenNoGain ==
    (pc = "returned" /\ current_merged_seats <= baseline_seats) =>
        loss = Zero /\ steps = 0

\* an early return on equal seat counts although the scenario list would
\* give the merged alliance more
C4_Witness ==
    /\ pc = "returned"
    /\ current_merged_seats = baseline_seats
    /\ baseline_seats > 0
    /\ ScenarioSeats > baseline_seats
    /\ loss = Zero

----------------------------------------------------------------------------
(* simulation.py : _national_indifference_loss *)

\* main builds each entry from _merge_pacts, which appends the merged
\* alliance after the alliances it left alone; the merged alliance has the
\* most votes of the district
NationalScenarios ==
    {[merged_pacts |-> <<[code |-> <<"C">>, votes |-> c],
                         [code |-> MergedLabel, votes |-> m]>>,
      merged_label |-> MergedLabel,
      seats        |-> n] :
        c \in 0..MaxNatVotes, m \in {MaxNatVotes}, n \in 1..MaxNatSeats}

RECURSIVE SeqsUpTo(_, _)
SeqsUpTo(S, k) ==
    IF k = 0 THEN {<<>>}
    ELSE LET shorter == SeqsUpTo(S, k - 1)
         IN  shorter \cup {Append(t, x) : t \in {u \in shorter : Len(u) = k - 1}, x \in S}

\* total += allocation.get(circ.merged_label, 0) over the districts, at loss f
NationalSeatsAt(circs, f) ==
    SumSeq([i \in 1..Len(circs) |->
                MergedSeatsAt(circs[i].merged_pacts, circs[i].merged_label,
                              circs[i].seats, f)])

\* main, lines 87, 98 and 114: the scenario seats summed over the districts
NationalScenarioSeats(circs) ==
    SumSeq([i \in 1..Len(circs) |->
                Get(dhondt_allocation(AsFloatVotes(circs[i].merged_pacts), circs[i].seats),
                    circs[i].merged_label)])

NationalSeatCount(circs) == SumSeq([i \in 1..Len(circs) |-> circs[i].seats])

\* a search that counts the first district only
FirstDistrictSeatsAt(circs, f) ==
    NationalSeatsAt(Take(circs, 1), f)

\* the quantity the national search compares with baseline_total
SearchedSeatsAt(circs, f) == NationalSeatsAt(circs, f)

InitNational ==
    /\ pc = "call"
    /\ raised = "none"
    /\ seats = 0
    /\ circunscripciones \in SeqsUpTo(NationalScenarios, MaxDistricts)
    /\ baseline_total \in 0..NationalSeatCount(circunscripciones)
    /\ current_total = NationalScenarioSeats(circunscripciones)
    /\ DhondtIdle
    /\ LossIdle
    /\ VoteLossIdle
    /\ MergeIdle
    /\ WinnersIdle
    /\ MainIdle
    /\ ScriptIdle

\* lines 520-525: the early return, or the start of the search
NationalLossEnter ==
    /\ pc = "call"
    /\ IF circunscripciones = <<>> \/ NoGainToErase(current_total, baseline_total)
       THEN /\ loss' = Zero
            /\ pc' = "returned"
       ELSE /\ loss' = loss
            /\ pc' = "search"
    /\ low' = Zero
    /\ high' = One
    /\ UNCHANGED <<seats, raised, steps, merged_pacts, merged_label, baseline_seats,
                   current_merged_seats, dhondtVars, voteLossVars, nationalVars, mergeVars, winnerVars,
                   mainVars, scriptVars>>

\* lines 526-539: one iteration of the for loop, and the return after the last
NationalLossStep ==
    /\ pc = "search"
    /\ steps < MaxIterations
    /\ LET mid == Mid(low, high)
           errs == {VoteLossError(circunscripciones[i].merged_pacts,
                                  circunscripciones[i].merged_label, mid) :
                        i \in 1..Len(circunscripciones)} \ {"none"}
       IN  IF errs # {}
           THEN /\ raised' = CHOOSE e \in errs : TRUE
                /\ pc' = "raised"
                /\ UNCHANGED <<low, high, steps, loss>>
           ELSE LET total == SearchedSeatsAt(circunscripciones, mid)
                    lo == IF total > baseline_total THEN mid ELSE low
                    hi == IF total > baseline_total THEN high ELSE mid
                IN  /\ low' = lo
                    /\ high' = hi
                    /\ steps' = steps + 1
                    /\ raised' = raised
                    /\ IF Converged(lo, hi) \/ steps + 1 = MaxIterations
                       THEN /\ loss' = SearchResult(lo, hi)
                            /\ pc' = "returned"
                       ELSE /\ loss' = loss
                            /\ pc' = "search"
    /\ UNCHANGED <<seats, merged_pacts, merged_label, baseline_seats,
                   current_merged_seats, dhondtVars, voteLossVars, nationalVars, mergeVars, winnerVars,
                   mainVars, scriptVars>>

NextNational == NationalLossEnter \/ NationalLossStep

SpecNational == InitNational /\ [][NextNational]_vars

\* C3: for a non-empty list of districts whose summed merged-alliance seats
\* exceed baseline_total, _national_indifference_loss returns one fraction
\* at which the merged alliance's seats, every district solved on its own
\* and summed, are at most baseline_total, and at least baseline_total at
\* max(loss - 1e-4, 0); it returns 0.0 for an empty list or when
\* current_total <= baseline_total.
C3_NationalThreshold ==
    pc = "returned" =>
        /\ (circunscripciones # <<>> /\ current_total > baseline_total) =>
            /\ NationalSeatsAt(circunscripciones, loss) <= baseline_total
            /\ NationalSeatsAt(circunscripciones, FMax(FSub(loss, Tolerance), Zero))
                    >= baseline_total
        /\ (circunscripciones = <<>> \/ current_total <= baseline_total) =>
            loss = Zero

\* two districts whose merged alliances lose their seats at different
\* fractions, and a national threshold strictly inside (0, 1)
C3_Witness ==
    /\ pc = "returned"
    /\ Len(circunscripciones) = 2
    /\ current_total > baseline_total
    /\ baseline_total > 0
    /\ FLess(Zero, low)
    /\ FLess(high, One)
    /\ loss = high
    /\ MergedSeatsAt(circunscripciones[1].merged_pacts, MergedLabel,
                     circunscripciones[1].seats, loss) = 0
    /\ MergedSeatsAt(circunscripciones[2].merged_pacts, MergedLabel,
                     circunscripciones[2].seats, loss) > 0

----------------------------------------------------------------------------
(* simulation.py : _merge_pacts, called as main calls it *)

\* sorted(merged_candidates, key=lambda c: (-c.votes, c.number))
MergedCandidateLess(a, b) ==
    \/ a.votes > b.votes
    \/ a.votes = b.votes /\ a.number < b.number

RECURSIVE InsertMergedCandidate(_, _)
InsertMergedCandidate(x, sorted) ==
    IF sorted = <<>> THEN <<x>>
    ELSE IF MergedCandidateLess(x, Head(sorted)) THEN <<x>> \o sorted
    ELSE <<Head(sorted)>> \o InsertMergedCandidate(x, Tail(sorted))

RECURSIVE SortMergedCandidates(_)
SortMergedCandidates(s) ==
    IF s = <<>> THEN <<>>
    ELSE InsertMergedCandidate(s[Len(s)], SortMergedCandidates(SubSeq(s, 1, Len(s) - 1)))

\* main, line 61
RequestedCodes(a, b) == {StrUpper(Strip(a)), StrUpper(Strip(b))}

\* a comparison that keeps the case of the district's code
IsMatchedExact(p, codes) == p.code \in codes

\* if pact.code.upper() in codes
IsMatched(p, codes) == StrUpper(p.code) \in codes

\* merged_votes = pact.votes, for merged_votes += pact.votes
LastMatchedVotes(matched) ==
    IF matched = <<>> THEN 0 ELSE matched[Len(matched)].votes

\* merged_votes after the loop
MergedVotesSum(matched) == SumSeq([i \in 1..Len(matched) |-> matched[i].votes])

\* the triple _merge_pacts returns when at least one alliance matched
merge_pacts(ps, codes) ==
    LET matched      == SelectSeq(ps, LAMBDA p : IsMatched(p, codes))
        result       == SelectSeq(ps, LAMBDA p : ~IsMatched(p, codes))
        merged_codes == [i \in 1..Len(matched) |-> matched[i].code]
        merged_names == [i \in 1..Len(matched) |-> matched[i].name]
        label        == Join(<<" ", "+", " ">>, merged_codes)
        merged_pact  ==
            [code            |-> label,
             name            |-> Join(<<" ", "+", " ">>, merged_names),
             label           |-> label,
             votes           |-> MergedVotesSum(matched),
             percentage      |-> None,
             candidate_slots |-> None,
             seats_won       |-> None,
             candidates      |-> SortMergedCandidates(
                                    Concat([i \in 1..Len(matched) |->
                                                matched[i].candidates]))]
    IN  [merged_pacts |-> Append(result, merged_pact),
         merged_label |-> label,
         merged_codes |-> merged_codes]

\* a ValueError as soon as one requested code is absent
MergeErrorAnyAbsent(ps, codes) ==
    IF \E c \in codes : \A i \in 1..Len(ps) : StrUpper(ps[i].code) # c
    THEN "ValueError: no requested pact present"
    ELSE "none"

\* if not merged_codes: raise ValueError
MergeError(ps, codes) ==
    IF \A i \in 1..Len(ps) : ~IsMatched(ps[i], codes)
    THEN "ValueError: no requested pact present"
    ELSE "none"

\* the alliance codes of a district, distinct in a district
DistrictCodes == {<<"A">>, <<"a">>, <<"B">>}

\* position of a code on the ballot
BallotNumber(code) ==
    CASE code = <<"A">> -> 1 [] code = <<"a">> -> 2 [] OTHER -> 3

\* one candidate of the alliance with the given code
CandidateOf(code, v) ==
    [number |-> BallotNumber(code), name |-> <<"N">> \o code, party |-> <<>>,
     votes |-> v, percentage |-> None, elected |-> FALSE, pact_code |-> code]

CandidateListsOf(code) ==
    {<<>>} \cup {<<CandidateOf(code, v)>> : v \in 0..1}

PactResultOf(code, v, cands) ==
    [code |-> code, name |-> <<"P">> \o code, label |-> code, votes |-> v,
     percentage |-> None, candidate_slots |-> None, seats_won |-> None,
     candidates |-> cands]

RECURSIVE PactListsOver(_)
PactListsOver(cs) ==
    IF cs = <<>> THEN {<<>>}
    ELSE {<<PactResultOf(Head(cs), v, cl)>> \o rest :
            v \in 0..MaxMergeVotes, cl \in CandidateListsOf(Head(cs)),
            rest \in PactListsOver(Tail(cs))}

DistrictPactLists == UNION {PactListsOver(cs) : cs \in Arrangements(DistrictCodes)}

\* what the user may type for --pact-a and --pact-b
ArgCodes == {<<"A">>, <<"a", " ">>, <<"B">>, <<"X">>}

InitMerge ==
    /\ pc = "call"
    /\ raised = "none"
    /\ seats = 0
    /\ pacts \in DistrictPactLists
    /\ allocation = <<>>
    /\ prev = NoPrev
    /\ pact_a \in ArgCodes
    /\ pact_b \in ArgCodes
    /\ merged_original_codes = <<>>
    /\ LossIdle
    /\ VoteLossIdle
    /\ NationalIdle
    /\ WinnersIdle
    /\ MainIdle
    /\ ScriptIdle

\* main, lines 61 and 80-86: the merge of one district, or its ValueError
MergePacts ==
    /\ pc = "call"
    /\ LET codes == RequestedCodes(pact_a, pact_b)
           err   == MergeError(pacts, codes)
           triple == merge_pacts(pacts, codes)
       IN  IF err # "none"
           THEN /\ raised' = err
                /\ pc' = "raised"
                /\ UNCHANGED <<merged_pacts, merged_label, merged_original_codes>>
           ELSE /\ raised' = raised
                /\ pc' = "returned"
                /\ merged_pacts' = triple.merged_pacts
                /\ merged_label' = triple.merged_label
                /\ merged_original_codes' = triple.merged_codes
    /\ UNCHANGED <<seats, pacts, allocation, prev, pact_a, pact_b, baseline_seats,
                   current_merged_seats, low, high, steps, loss, voteLossVars,
                   nationalVars, winnerVars,
                   mainVars, scriptVars>>

NextMerge == MergePacts

SpecMerge == InitMerge /\ [][NextMerge]_vars

VotesTotal(ps) == SumSeq([i \in 1..Len(ps) |-> ps[i].votes])

\* C6: when _merge_pacts succeeds the alliance-level votes of the returned
\* list total those of the input list: the synthetic alliance carries the
\* sum of the matched alliances' votes and every unmatched alliance is
\* passed through with its votes unchanged.
C6_MergeConservesVotes ==
    pc = "returned" =>
        LET codes     == RequestedCodes(pact_a, pact_b)
            unmatched == {i \in 1..Len(pacts) : StrUpper(pacts[i].code) \notin codes}
            synthetic == merged_pacts[Len(merged_pacts)]
        IN  /\ VotesTotal(merged_pacts) = VotesTotal(pacts)
            /\ synthetic.code = merged_label
            /\ synthetic.votes + SumSeq([i \in 1..Len(pacts) |->
                                            IF i \in unmatched THEN pacts[i].votes ELSE 0])
                    = VotesTotal(pacts)
            /\ \A i \in unmatched : \E j \in 1..(Len(merged_pacts) - 1) :
                    merged_pacts[j] = pacts[i]
            /\ Len(merged_pacts) = Cardinality(unmatched) + 1

\* two alliances with votes merged, a third passed through
C6_Witness ==
    /\ pc = "returned"
    /\ Len(pacts) = 3
    /\ Len(merged_original_codes) = 2
    /\ \A i \in 1..3 : pacts[i].votes > 0
    /\ merged_pacts[2].votes > pacts[1].votes
    /\ merged_pacts[2].votes > pacts[3].votes

----------------------------------------------------------------------------
(* simulation.py : the choice of the elected candidates of an alliance *)

\* _candidate_sort_key: (-votes, number, name)
CandidateKeyLess(a, b) ==
    \/ a.votes > b.votes
    \/ a.votes = b.votes /\ a.number < b.number
    \/ a.votes = b.votes /\ a.number = b.number /\ StrLess(a.name, b.name)

RECURSIVE InsertCandidate(_, _)
InsertCandidate(x, sorted) ==
    IF sorted = <<>> THEN <<x>>
    ELSE IF CandidateKeyLess(x, Head(sorted)) THEN <<x>> \o sorted
    ELSE <<Head(sorted)>> \o InsertCandidate(x, Tail(sorted))

RECURSIVE SortCandidates(_)
SortCandidates(s) ==
    IF s = <<>> THEN <<>>
    ELSE InsertCandidate(s[Len(s)], SortCandidates(SubSeq(s, 1, Len(s) - 1)))

top_candidates(cands, n) == Take(SortCandidates(cands), n)

\* _candidate_identity: (number, votes, name)
candidate_identity(c) == <<c.number, c.votes, c.name>>

\* re.compile(r"^IND\s*-\s*(.+)$", re.IGNORECASE).match(label): the text after
\* the dash when the label starts with IND, optional blanks and a dash and
\* something follows the dash; <<>> when there is no match. The stripped
\* group is what the caller uses.
IndRemainder(label) ==
    IF Len(label) >= 3 /\ StrUpper(SubSeq(label, 1, 3)) = <<"I", "N", "D">>
    THEN LET after == LStrip(SubSeq(label, 4, Len(label)))
         IN  IF after # <<>> /\ Head(after) = "-" /\ Len(after) >= 2
             THEN Strip(Tail(after))
             ELSE <<>>
    ELSE <<>>

\* a normalisation without the pattern: only the bare IND is recognised
NormalizeWithoutPattern(label) ==
    IF label = <<>> THEN label
    ELSE IF StrUpper(label) = <<"I", "N", "D">> THEN <<"I", "N", "D">>
    ELSE label

normalize_independent_party_label(label) ==
    IF label = <<>> THEN label
    ELSE IF IndRemainder(label) # <<>> THEN IndRemainder(label)
    ELSE IF StrUpper(label) = <<"I", "N", "D">> THEN <<"I", "N", "D">>
    ELSE label

\* a missing party (None) and an empty one are both <<>>: the code tests
\* their truth value only
candidate_subpact_code(c) ==
    LET stripped   == Strip(c.party)
        normalized == normalize_independent_party_label(stripped)
    IN  IF c.party # <<>> /\ stripped # <<>> /\ normalized # <<>> THEN normalized
        ELSE IF c.pact_code # <<>>
             THEN c.pact_code \o <<" ", "(", "s", "i", "n", " ", "p", "a", "r", "t", "i", "d", "o", ")">>
             ELSE <<"(", "s", "i", "n", " ", "p", "a", "r", "t", "i", "d", "o", ")">>

\* the distinct items of a sequence in the order of their first occurrence:
\* the key order of a Counter or dict filled from it
RECURSIVE KeysInOrder(_)
KeysInOrder(items) ==
    IF items = <<>> THEN <<>>
    ELSE LET front == KeysInOrder(SubSeq(items, 1, Len(items) - 1))
             x     == items[Len(items)]
         IN  IF \E i \in 1..Len(front) : front[i] = x THEN front ELSE Append(front, x)

Max0(v) == IF v > 0 THEN v ELSE 0

\* _group_candidates_by_subpact(...)[code]
GroupOf(cands, code) == SelectSeq(cands, LAMBDA c : candidate_subpact_code(c) = code)

\* the _SubpactResult list of _subpact_allocation: the sub-groups with votes
Subpacts(cands) ==
    LET codes  == KeysInOrder([i \in 1..Len(cands) |-> candidate_subpact_code(cands[i])])
        totals == [i \in 1..Len(codes) |->
                    [code  |-> codes[i],
                     votes |-> SumSeq([j \in 1..Len(cands) |->
                                IF candidate_subpact_code(cands[j]) = codes[i]
                                THEN Max0(cands[j].votes) ELSE 0])]]
    IN  SelectSeq(totals, LAMBDA t : t.votes > 0)

\* the sub-group codes of the seats _subpact_allocation hands out, in the
\* order in which the returned dict lists them with repetitions kept
SubpactWinningCodes(cands, n) ==
    IF n <= 0 \/ Subpacts(cands) = <<>> THEN <<>>
    ELSE WinningCodes(AsFloatVotes(Subpacts(cands)), n)

subpact_allocation(cands, n) == CounterOf(SubpactWinningCodes(cands, n))

\* selected.append(candidate) unless its identity is already selected
RECURSIVE AppendNew(_, _)
AppendNew(selected, more) ==
    IF more = <<>> THEN selected
    ELSE IF \E i \in 1..Len(selected) :
                candidate_identity(selected[i]) = candidate_identity(Head(more))
         THEN AppendNew(selected, Tail(more))
         ELSE AppendNew(Append(selected, Head(more)), Tail(more))

\* lines 273-284: the candidates taken sub-group by sub-group
RECURSIVE SelectBySubpact(_, _, _, _)
SelectBySubpact(cands, subpact_seats, codes, selected) ==
    IF codes = <<>> THEN selected
    ELSE SelectBySubpact(cands, subpact_seats, Tail(codes),
            AppendNew(selected,
                      top_candidates(GroupOf(cands, Head(codes)),
                                     subpact_seats[Head(codes)])))

\* lines 288-292: the candidates not yet selected, best first
FallbackCandidates(cands, selected) ==
    SelectSeq(top_candidates(cands, Len(cands)),
              LAMBDA c : \A i \in 1..Len(selected) :
                            candidate_identity(selected[i]) # candidate_identity(c))

\* a choice by individual votes alone
SelectByVotesOnly(cands, n) == top_candidates(cands, n)

select_winners_from_pact(cands, n) ==
    IF cands = <<>> \/ n <= 0 THEN <<>>
    ELSE LET order         == KeysInOrder(SubpactWinningCodes(cands, n))
             subpact_seats == subpact_allocation(cands, n)
         IN  IF order = <<>> THEN top_candidates(cands, n)
             ELSE LET selected == SelectBySubpact(cands, subpact_seats, order, <<>>)
                      filled   ==
                        IF Len(selected) < n
                        THEN selected \o Take(FallbackCandidates(cands, selected),
                                              n - Len(selected))
                        ELSE selected
                  IN  Take(SortCandidates(filled), n)

----------------------------------------------------------------------------
(* Inputs of the winner selection: an alliance and its candidates *)

\* a candidate without a party, and an independent on party P's ticket
PartyLabels == {<<>>, <<"I", "N", "D", " ", "-", " ", "P">>}

\* the names run against the list order
CandidateName(i) == <<Alphabet[18 - i]>>

\* how the candidate rows of the source are written: with ballot numbers, or
\* without them, where _build_candidate gives every candidate the number 0
\* and the name decides between equals; the second of the rows without
\* number bears the name of the first
Namings == {"numbered", "namesakes"}

\* the candidates are listed by votes, as in an alliance built by
\* _merge_pacts
VoteLists(k) ==
    {vs \in [1..k -> 0..MaxCandVotes] : \A i \in 1..(k - 1) : vs[i] >= vs[i + 1]}

CandidateLists ==
    UNION {
        {[i \in 1..k |->
            [number |-> IF naming = "numbered" THEN i ELSE 0,
             name |-> IF naming = "namesakes" /\ i = 2
                      THEN CandidateName(1) ELSE CandidateName(i),
             party |-> ps[i], votes |-> vs[i], percentage |-> None,
             elected |-> FALSE, pact_code |-> <<"A">>]] :
            ps \in [1..k -> PartyLabels], vs \in VoteLists(k),
            naming \in Namings}
        : k \in 0..MaxCandidates}

InitWinners ==
    /\ pc = "call"
    /\ raised = "none"
    /\ seats \in 0..MaxWinSeats
    /\ pact \in {PactResultOf(<<"A">>, 1, cl) : cl \in CandidateLists}
    /\ winners = <<>>
    /\ DhondtIdle
    /\ LossIdle
    /\ VoteLossIdle
    /\ NationalIdle
    /\ MergeIdle
    /\ MainIdle
    /\ ScriptIdle

\* winners = _select_winners_from_pact(pact, seats)
SelectWinners ==
    /\ pc = "call"
    /\ winners' = select_winners_from_pact(pact.candidates, seats)
    /\ pc' = "returned"
    /\ UNCHANGED <<seats, raised, pact, dhondtVars, lossVars, voteLossVars,
                   nationalVars, mergeVars, mainVars, scriptVars>>

NextWinners == SelectWinners

SpecWinners == InitWinners /\ [][NextWinners]_vars

Candidates == pact.candidates

SetOf(seq) == {seq[i] : i \in 1..Len(seq)}

\* how many times a record occurs in a list
Count(seq, r) == Cardinality({i \in 1..Len(seq) : seq[i] = r})

SubGroupCodes ==
    {candidate_subpact_code(Candidates[i]) : i \in 1..Len(Candidates)}

\* the positions of the candidates of a sub-group
SubGroup(g) ==
    {i \in 1..Len(Candidates) : candidate_subpact_code(Candidates[i]) = g}

RECURSIVE SumVotes(_)
SumVotes(is) ==
    IF is = {} THEN 0
    ELSE LET i == CHOOSE x \in is : TRUE
         IN  Candidates[i].votes + SumVotes(is \ {i})

\* dhondt_allocation over the sub-groups' summed candidate votes, seats = N
SubSeats ==
    LET order == KeysInOrder([i \in 1..Len(Candidates) |->
                                candidate_subpact_code(Candidates[i])])
    IN  dhondt_allocation(
            [i \in 1..Len(order) |->
                [code |-> order[i], votes |-> Float(SumVotes(SubGroup(order[i])))]],
            seats)

\* candidate j is ranked before candidate i: votes descending, ballot
\* number, name, and the list order between equals
RankedBefore(j, i) ==
    \/ CandidateKeyLess(Candidates[j], Candidates[i])
    \/ ~CandidateKeyLess(Candidates[i], Candidates[j]) /\ j < i

\* the positions of the k best of a sub-group
TopOfSubGroup(g, k) ==
    {i \in SubGroup(g) :
        Cardinality({j \in SubGroup(g) : RankedBefore(j, i)}) < k}

SubGroupPicks ==
    LET sub_seats == SubSeats
    IN  UNION {TopOfSubGroup(g, Get(sub_seats, g)) : g \in SubGroupCodes}

PicksCount(r) == Cardinality({i \in SubGroupPicks : Candidates[i] = r})

\* the elected are the picks of the sub-groups, each as often as picked
ElectedArePicks ==
    LET picks == SubGroupPicks
    IN  \A r \in SetOf(Candidates) \cup SetOf(winners) :
            Count(winners, r) = Cardinality({i \in picks : Candidates[i] = r})

EverySubGroupCanFill ==
    LET sub_seats == SubSeats
    IN  \A g \in SubGroupCodes : Get(sub_seats, g) <= Cardinality(SubGroup(g))

\* no two candidates of the alliance share ballot number, votes and name
DistinctIdentities ==
    \A i, j \in 1..Len(Candidates) :
        i # j => candidate_identity(Candidates[i]) # candidate_identity(Candidates[j])

\* C9 as stated: when the alliance wins N seats and every sub-group has at
\* least as many candidates as the sub-seats it receives, the elected are,
\* for each sub-group, exactly its top-voted candidates up to its sub-seat
\* count.
C9_SubGroupTopsElected ==
    (pc = "returned" /\ seats >= 1 /\ EverySubGroupCanFill) => ElectedArePicks

\* C9 amended: the same for an alliance in which no two candidates share
\* ballot number, votes and name and at least one sub-group has a positive
\* vote total; when no sub-group has one, the N best candidates of the
\* whole alliance are elected.
C9_SubGroupTopsElectedWhenVotes ==
    (pc = "returned" /\ seats >= 1 /\ EverySubGroupCanFill /\ DistinctIdentities) =>
        IF \E i \in 1..Len(Candidates) : Candidates[i].votes > 0
        THEN ElectedArePicks
        ELSE winners = top_candidates(Candidates, seats)

\* two sub-groups with a seat each although the runner-up of the first has
\* more votes than the elected of the second
C9_Witness ==
    /\ pc = "returned"
    /\ seats = 2
    /\ EverySubGroupCanFill
    /\ DistinctIdentities
    /\ Len(winners) = 2
    /\ candidate_subpact_code(winners[1]) # candidate_subpact_code(winners[2])
    /\ \E c \in SetOf(Candidates) \ SetOf(winners) :
        /\ c.votes > winners[2].votes
        /\ candidate_subpact_code(c) = candidate_subpact_code(winners[1])

\* C10: _select_winners_from_pact returns exactly min(N, number of
\* candidates) candidates of the alliance, none more often than the alliance
\* lists it; the sub-groups' picks are among them and every other one of
\* them is ranked above every candidate left out.
C10_SeatsFilled ==
    pc = "returned" =>
        /\ Len(winners) = Min(seats, Len(Candidates))
        /\ \A r \in SetOf(winners) : Count(winners, r) <= Count(Candidates, r)
        /\ seats >= 1 => \A r \in SetOf(Candidates) : PicksCount(r) <= Count(winners, r)
        /\ \A c \in SetOf(winners) :
            Count(winners, c) > PicksCount(c) =>
                \A d \in SetOf(Candidates) :
                    Count(winners, d) < Count(Candidates, d) =>
                        ~CandidateKeyLess(d, c)

\* C10 for the alliances in which no two candidates share ballot number,
\* votes and name: there the count is min(N, number of candidates).
C10_SeatsFilledDistinct ==
    (pc = "returned" /\ DistinctIdentities) =>
        /\ Len(winners) = Min(seats, Len(Candidates))
        /\ \A r \in SetOf(winners) : Count(winners, r) = 1
        /\ SetOf(winners) \subseteq SetOf(Candidates)
        /\ seats >= 1 => \A r \in SetOf(Candidates) : PicksCount(r) <= Count(winners, r)
        /\ \A c \in SetOf(winners) :
            PicksCount(c) = 0 =>
                \A d \in SetOf(Candidates) \ SetOf(winners) : CandidateKeyLess(c, d)

\* an alliance of two candidates with the same number, votes and name and
\* two seats to fill: one candidate is returned
C10_Witness ==
    /\ pc = "returned"
    /\ seats = 2
    /\ Len(Candidates) = 2
    /\ ~DistinctIdentities
    /\ Len(winners) = 1

\* a sub-group with more sub-seats than candidates, the seat left over
\* filled from another sub-group while a third candidate stays out
C10_FallbackWitness ==
    /\ pc = "returned"
    /\ DistinctIdentities
    /\ \E g \in SubGroupCodes : Get(SubSeats, g) > Cardinality(SubGroup(g))
    /\ Len(winners) = seats
    /\ \E c \in SetOf(winners) : PicksCount(c) = 0
    /\ SetOf(Candidates) \ SetOf(winners) # {}

----------------------------------------------------------------------------
(* The no-match condition and the matching of requested codes *)

\* the two codes as typed for --pact-a and --pact-b
RequestedAsTyped == {pact_a, pact_b}

EqualIgnoringCase(s, t) ==
    /\ Len(s) = Len(t)
    /\ \A i \in 1..Len(s) : UpperChar(s[i]) = UpperChar(t[i])

\* the requested code names the alliance: surrounding blanks and letter
\* case aside
Names(requested, p) == EqualIgnoringCase(Strip(requested), p.code)

\* the positions of the district's alliances named by a requested code
NamedAlliances ==
    {i \in 1..Len(pacts) : \E r \in RequestedAsTyped : Names(r, pacts[i])}

\* C11: _merge_pacts raises the no-match ValueError if and only if no
\* requested code names an alliance of the district; with one requested code
\* present and the other absent it returns.
C11_NoMatchIffNonePresent ==
    pc # "call" =>
        /\ pc = "raised" <=> NamedAlliances = {}
        /\ pc = "returned" <=> NamedAlliances # {}
        /\ pc = "raised" => raised = "ValueError: no requested pact present"
        /\ pc = "returned" => raised = "none"

\* the merge returned although one of the two requested codes names no
\* alliance of the district
C11_Witness ==
    /\ pc = "returned"
    /\ \E r \in RequestedAsTyped : \A i \in 1..Len(pacts) : ~Names(r, pacts[i])
    /\ \E r \in RequestedAsTyped : \E i \in 1..Len(pacts) : Names(r, pacts[i])
    /\ Len(pacts) >= 2

\* the alliances passed through, in the order of the returned list
PassedThrough == SubSeq(merged_pacts, 1, Len(merged_pacts) - 1)

\* C15 as stated: the alliances merged are exactly those whose code equals
\* a requested code, as typed, ignoring letter case.
C15_MergesEqualIgnoringCase ==
    pc = "returned" =>
        LET equal == {i \in 1..Len(pacts) :
                        \E r \in RequestedAsTyped : EqualIgnoringCase(r, pacts[i].code)}
        IN  /\ {merged_original_codes[j] : j \in 1..Len(merged_original_codes)}
                    = {pacts[i].code : i \in equal}
            /\ {PassedThrough[j] : j \in 1..Len(PassedThrough)}
                    = {pacts[i] : i \in (1..Len(pacts)) \ equal}

\* C15 amended: the alliances merged are exactly those whose code equals a
\* requested code ignoring letter case once the blanks around the requested
\* code are removed; all others are passed through.
C15_MergesEqualIgnoringCaseAndBlanks ==
    pc = "returned" =>
        /\ {merged_original_codes[j] : j \in 1..Len(merged_original_codes)}
                = {pacts[i].code : i \in NamedAlliances}
        /\ Len(merged_original_codes) = Cardinality(NamedAlliances)
        /\ {PassedThrough[j] : j \in 1..Len(PassedThrough)}
                = {pacts[i] : i \in (1..Len(pacts)) \ NamedAlliances}

\* a request typed in lower case merged the alliances "A" and "a" of one
\* district and left alliance "B" alone
C15_Witness ==
    /\ pc = "returned"
    /\ pact_a = <<"a", " ">>
    /\ pact_b = <<"X">>
    /\ Len(pacts) = 3
    /\ Len(merged_original_codes) = 2
    /\ \E j \in 1..2 : merged_original_codes[j] = <<"A">>
    /\ \E j \in 1..2 : merged_original_codes[j] = <<"a">>
    /\ merged_pacts[1].code = <<"B">>

----------------------------------------------------------------------------
(* simulation.py : main, the loop over the districts (run without --circ) *)

\* Counter.update(mapping)
CounterUpdate(counter, mapping) ==
    [k \in DOMAIN counter \cup DOMAIN mapping |-> Get(counter, k) + Get(mapping, k)]

\* _record_pact_names and lines 88-89: setdefault(pact.code, pact.name)
record_pact_names(names, ps) ==
    [k \in DOMAIN names \cup {ps[i].code : i \in 1..Len(ps)} |->
        IF k \in DOMAIN names THEN names[k]
        ELSE ps[CHOOSE i \in 1..Len(ps) :
                    ps[i].code = k /\ \A j \in 1..(i - 1) : ps[j].code # k].name]

\* pact_lookup.get(code): the last alliance listed with the code
PactLookup(ps, code) ==
    ps[CHOOSE i \in 1..Len(ps) :
            ps[i].code = code /\ \A j \in (i + 1)..Len(ps) : ps[j].code # code]

winners_by_pact(ps, alloc) ==
    [code \in {c \in DOMAIN alloc :
                    alloc[c] > 0 /\ \E i \in 1..Len(ps) : ps[i].code = c} |->
        select_winners_from_pact(PactLookup(ps, code).candidates, alloc[code])]

combined_seats(alloc, codes) == SumSeq([i \in 1..Len(codes) |-> Get(alloc, codes[i])])

SinCodigo == <<"(", "s", "i", "n", " ", "c", "o", "d", "i", "g", "o", ")">>

merged_breakdown_counts(label, ws) ==
    IF label \notin DOMAIN ws \/ ws[label] = <<>> THEN <<>>
    ELSE CounterOf([i \in 1..Len(ws[label]) |->
                        IF ws[label][i].pact_code # <<>> THEN ws[label][i].pact_code
                        ELSE SinCodigo])

distribute_allocation_by_origin(alloc, label, breakdown) ==
    LET spread == label \in DOMAIN alloc /\ DOMAIN breakdown # {}
        kept   == IF spread THEN DOMAIN alloc \ {label} ELSE DOMAIN alloc
    IN  [k \in kept \cup (IF spread THEN DOMAIN breakdown ELSE {}) |->
            (IF k \in kept THEN alloc[k] ELSE 0)
            + (IF spread THEN Get(breakdown, k) ELSE 0)]

\* _pact_votes, 0 standing for None: line 127 adds truthy values only
pact_votes(ps, code) ==
    IF \E i \in 1..Len(ps) : ps[i].code = code
    THEN ps[CHOOSE i \in 1..Len(ps) :
                ps[i].code = code /\ \A j \in 1..(i - 1) : ps[j].code # code].votes
    ELSE 0

\* the accumulators of main as one record
MainState ==
    [summary_official           |-> summary_official,
     summary_scenario           |-> summary_scenario,
     summary_scenario_by_origin |-> summary_scenario_by_origin,
     summary_breakdowns         |-> summary_breakdowns,
     pact_names                 |-> pact_names,
     processed_any              |-> processed_any,
     national_entries           |-> national_entries,
     national_baseline_seats    |-> national_baseline_seats,
     national_scenario_seats    |-> national_scenario_seats,
     national_merged_votes      |-> national_merged_votes]

\* lines 63-72
EmptyMainState ==
    [summary_official           |-> <<>>,
     summary_scenario           |-> <<>>,
     summary_scenario_by_origin |-> <<>>,
     summary_breakdowns         |-> <<>>,
     pact_names                 |-> <<>>,
     processed_any              |-> FALSE,
     national_entries           |-> <<>>,
     national_baseline_seats    |-> 0,
     national_scenario_seats    |-> 0,
     national_merged_votes      |-> 0]

\* a skip that has already counted the district's official seats
SkippedDistrictCounted(st, names, original_allocation) ==
    [st EXCEPT !.pact_names = names,
               !.summary_official = CounterUpdate(@, original_allocation)]

\* lines 78-79 and 84-86: the accumulators after a district whose merge
\* raised ValueError
SkippedDistrict(st, names, original_allocation) ==
    [st EXCEPT !.pact_names = names]

\* lines 106-128: the accumulators after a district whose merge succeeded
Accumulated(st, circ, names, original_allocation, triple, merged_allocation, merged_breakdown) ==
    [summary_official |->
        CounterUpdate(st.summary_official, original_allocation),
     summary_scenario |->
        CounterUpdate(st.summary_scenario, merged_allocation),
     summary_scenario_by_origin |->
        CounterUpdate(st.summary_scenario_by_origin,
            distribute_allocation_by_origin(merged_allocation, triple.merged_label,
                                            merged_breakdown)),
     summary_breakdowns |->
        IF DOMAIN merged_breakdown = {} THEN st.summary_breakdowns
        ELSE [k \in DOMAIN st.summary_breakdowns \cup {triple.merged_label} |->
                IF k = triple.merged_label
                THEN CounterUpdate(
                        IF k \in DOMAIN st.summary_breakdowns
                        THEN st.summary_breakdowns[k] ELSE <<>>,
                        merged_breakdown)
                ELSE st.summary_breakdowns[k]],
     pact_names |-> record_pact_names(names, triple.merged_pacts),
     processed_any |-> TRUE,
     national_entries |->
        Append(st.national_entries,
               [merged_pacts |-> triple.merged_pacts,
                merged_label |-> triple.merged_label,
                seats        |-> circ.seats]),
     national_baseline_seats |->
        st.national_baseline_seats
        + combined_seats(original_allocation, triple.merged_codes),
     national_scenario_seats |->
        st.national_scenario_seats + Get(merged_allocation, triple.merged_label),
     national_merged_votes |->
        st.national_merged_votes
        + pact_votes(triple.merged_pacts, triple.merged_label)]

\* lines 93 and 116: the winners of the merged list and their origins
AfterAllocations(st, circ, names, original_allocation, triple, merged_allocation) ==
    Accumulated(st, circ, names, original_allocation, triple, merged_allocation,
                merged_breakdown_counts(
                    triple.merged_label,
                    winners_by_pact(triple.merged_pacts, merged_allocation)))

\* line 87: merged_allocation = dhondt_allocation(merged_pacts, circ.seats)
AfterMerge(st, circ, names, original_allocation, triple) ==
    AfterAllocations(st, circ, names, original_allocation, triple,
                     dhondt_allocation(AsFloatVotes(triple.merged_pacts), circ.seats))

\* lines 78-128: the accumulators after one iteration of the loop. The
\* winners of the original list and the district's indifference loss
\* (lines 92, 94-95, 99-105) go to the printed report only.
AfterDistrict(st, circ, codes) ==
    IF MergeError(circ.pacts, codes) # "none"
    THEN SkippedDistrict(st, record_pact_names(st.pact_names, circ.pacts),
                         dhondt_allocation(AsFloatVotes(circ.pacts), circ.seats))
    ELSE AfterMerge(st, circ, record_pact_names(st.pact_names, circ.pacts),
                    dhondt_allocation(AsFloatVotes(circ.pacts), circ.seats),
                    merge_pacts(circ.pacts, codes))

\* _candidate_subpact_code reaches _normalize_independent_party_label for
\* a candidate of an alliance with seats, lines 333-336 and 347
PartyReached(ps, alloc) ==
    \E c \in {k \in DOMAIN alloc :
                alloc[k] > 0 /\ \E i \in 1..Len(ps) : ps[i].code = k} :
        LET cands == PactLookup(ps, c).candidates
        IN  \E i \in 1..Len(cands) :
                cands[i].party # <<>> /\ Strip(cands[i].party) # <<>>

\* lines 92-93 look up a module-level name that is not bound yet
NameErrorIn(circ, codes) ==
    /\ "_IND_PARTY_PATTERN" \notin defined
    /\ MergeError(circ.pacts, codes) = "none"
    /\ \/ PartyReached(circ.pacts,
                       dhondt_allocation(AsFloatVotes(circ.pacts), circ.seats))
       \/ PartyReached(merge_pacts(circ.pacts, codes).merged_pacts,
                       dhondt_allocation(
                           AsFloatVotes(merge_pacts(circ.pacts, codes).merged_pacts),
                           circ.seats))

----------------------------------------------------------------------------
(* Inputs of main: the districts the loader yields *)

MaxMainVotes == 2
MaxMainDistricts == 2

\* an alliance with one candidate, who has all its votes
MainPact(code, v, party) ==
    PactResultOf(code, v, <<[CandidateOf(code, v) EXCEPT !.party = party]>>)

\* which of the two requested alliances stand in a district
Presences == {<<"A", "B">>, <<"A">>, <<>>}

\* districts where alliance C always stands, alliances A and B have one
\* vote each where they stand, and one or two seats are at stake
MainDistricts(parties) ==
    {[seats |-> n,
      pacts |-> [i \in 1..Len(present) |-> MainPact(<<present[i]>>, 1, party)]
                \o <<MainPact(<<"C">>, c, party)>>] :
        present \in Presences, c \in 1..MaxMainVotes, n \in 1..2, party \in parties}

InitMain ==
    /\ pc = "loop"
    /\ raised = "none"
    /\ seats = 0
    /\ main_circunscripciones \in SeqsUpTo(MainDistricts({<<>>}), MaxMainDistricts)
    /\ pact_a = <<"A">>
    /\ pact_b = <<"B">>
    /\ merged_original_codes = <<>>
    /\ MainStart
    /\ DhondtIdle
    /\ LossIdle
    /\ VoteLossIdle
    /\ NationalIdle
    /\ WinnersIdle
    /\ ScriptIdle

\* lines 74-128: one iteration of the for loop
MainLoopStep ==
    /\ pc = "loop"
    /\ index < Len(main_circunscripciones)
    /\ LET circ  == main_circunscripciones[index + 1]
           codes == RequestedCodes(pact_a, pact_b)
       IN  \E st \in {AfterDistrict(MainState, circ, codes)} :
           IF NameErrorIn(circ, codes)
           THEN /\ raised' = "NameError: name '_IND_PARTY_PATTERN' is not defined"
                /\ pc' = "raised"
                /\ index' = index
                /\ pact_names' = st.pact_names
                /\ processed_any' = TRUE
                /\ UNCHANGED <<summary_official, summary_scenario,
                               summary_scenario_by_origin, summary_breakdowns,
                               national_entries, national_baseline_seats,
                               national_scenario_seats, national_merged_votes>>
           ELSE /\ raised' = raised
                /\ pc' = "loop"
                /\ index' = index + 1
                /\ summary_official' = st.summary_official
                /\ summary_scenario' = st.summary_scenario
                /\ summary_scenario_by_origin' = st.summary_scenario_by_origin
                /\ summary_breakdowns' = st.summary_breakdowns
                /\ pact_names' = st.pact_names
                /\ processed_any' = st.processed_any
                /\ national_entries' = st.national_entries
                /\ national_baseline_seats' = st.national_baseline_seats
                /\ national_scenario_seats' = st.national_scenario_seats
                /\ national_merged_votes' = st.national_merged_votes
    /\ UNCHANGED <<seats, main_circunscripciones, dhondtVars, lossVars, voteLossVars,
                   nationalVars, mergeVars, winnerVars, scriptVars>>

\* lines 151-153: the loop is over; the call of _national_indifference_loss
\* binds its parameters
MainLoopExit ==
    /\ pc = "loop"
    /\ index = Len(main_circunscripciones)
    /\ circunscripciones' = national_entries
    /\ baseline_total' = national_baseline_seats
    /\ current_total' = national_scenario_seats
    /\ pc' = "call"
    /\ UNCHANGED <<seats, raised, dhondtVars, lossVars, voteLossVars, mergeVars,
                   winnerVars, mainVars, scriptVars>>

NextMain == MainLoopStep \/ MainLoopExit \/ NationalLossEnter \/ NationalLossStep

SpecMain == InitMain /\ [][NextMain]_vars

\* the districts of the loop so far in which the merge succeeds
RECURSIVE SucceededOnly(_, _)
SucceededOnly(ds, codes) ==
    IF ds = <<>> THEN <<>>
    ELSE IF MergeError(Head(ds).pacts, codes) = "none"
         THEN <<Head(ds)>> \o SucceededOnly(Tail(ds), codes)
         ELSE SucceededOnly(Tail(ds), codes)

\* the accumulators after a run over the given districts
RECURSIVE RunOver(_, _, _)
RunOver(st, ds, codes) ==
    IF ds = <<>> THEN st
    ELSE RunOver(AfterDistrict(st, Head(ds), codes), Tail(ds), codes)

\* C12: a district whose merge raises the no-match ValueError does not stop
\* the loop, and after every iteration the seat summaries, the national
\* scenario entries and the national baseline and scenario seat totals are
\* those of a run over only the districts, among those handled so far, in
\* which the merge succeeded; the loop ends having handled every district.
C12_SkippedDistrictLeavesNoTrace ==
    LET codes  == RequestedCodes(pact_a, pact_b)
        expect == RunOver(EmptyMainState,
                          SucceededOnly(SubSeq(main_circunscripciones, 1, index), codes),
                          codes)
    IN  /\ raised = "none" \/ pc # "loop"
        /\ pc # "loop" => index = Len(main_circunscripciones)
        /\ summary_official = expect.summary_official
        /\ summary_scenario = expect.summary_scenario
        /\ summary_scenario_by_origin = expect.summary_scenario_by_origin
        /\ summary_breakdowns = expect.summary_breakdowns
        /\ national_entries = expect.national_entries
        /\ national_baseline_seats = expect.national_baseline_seats
        /\ national_scenario_seats = expect.national_scenario_seats
        /\ national_merged_votes = expect.national_merged_votes
        /\ processed_any = expect.processed_any

\* the loop is over: the first district had neither requested alliance, the
\* second was merged and is the only one in the summaries
C12_Witness ==
    /\ pc = "call"
    /\ Len(main_circunscripciones) = 2
    /\ index = 2
    /\ MergeError(main_circunscripciones[1].pacts, RequestedCodes(pact_a, pact_b)) # "none"
    /\ Len(national_entries) = 1
    /\ national_scenario_seats > national_baseline_seats
    /\ DOMAIN summary_official # {}

----------------------------------------------------------------------------
(* simulation.py : main, one district from its two allocations to its
   indifference loss (lines 78-99) *)

MaxScenarioVotes == 2
MaxScenarioSeats == 2

\* the alliance codes of the district
ScenarioDistrictCodes == {<<"A">>, <<"B">>, <<"C">>}

RECURSIVE ScenarioPactsOver(_)
ScenarioPactsOver(cs) ==
    IF cs = <<>> THEN {<<>>}
    ELSE {<<PactResultOf(Head(cs), v, <<>>)>> \o rest :
            v \in 0..MaxScenarioVotes, rest \in ScenarioPactsOver(Tail(cs))}

\* the alliances of a district, in any order of the result file
ScenarioDistricts ==
    UNION {ScenarioPactsOver(cs) : cs \in Arrangements(ScenarioDistrictCodes)}

InitScenario ==
    /\ pc = "district"
    /\ raised = "none"
    /\ seats \in 1..MaxScenarioSeats
    /\ pacts \in ScenarioDistricts
    /\ allocation = <<>>
    /\ prev = NoPrev
    /\ pact_a = <<"A">>
    /\ pact_b \in {<<"B">>, <<"C">>, <<"X">>}
    /\ merged_original_codes = <<>>
    /\ LossIdle
    /\ VoteLossIdle
    /\ NationalIdle
    /\ WinnersIdle
    /\ MainIdle
    /\ ScriptIdle

\* lines 78-98: both allocations of the district and the seats handed to
\* _indifference_loss_percentage; a district without the alliances is skipped
DistrictScenario ==
    /\ pc = "district"
    /\ LET codes  == RequestedCodes(pact_a, pact_b)
           original_allocation == dhondt_allocation(AsFloatVotes(pacts), seats)
           triple == merge_pacts(pacts, codes)
           merged_allocation ==
               dhondt_allocation(AsFloatVotes(triple.merged_pacts), seats)
       IN  /\ allocation' = original_allocation
           /\ IF MergeError(pacts, codes) # "none"
              THEN /\ pc' = "skipped"
                   /\ UNCHANGED <<merged_pacts, merged_label, merged_original_codes,
                                  baseline_seats, current_merged_seats>>
              ELSE /\ pc' = "call"
                   /\ merged_pacts' = triple.merged_pacts
                   /\ merged_label' = triple.merged_label
                   /\ merged_original_codes' = triple.merged_codes
                   /\ baseline_seats' =
                          combined_seats(original_allocation, triple.merged_codes)
                   /\ current_merged_seats' =
                          Get(merged_allocation, triple.merged_label)
    /\ UNCHANGED <<seats, raised, pacts, prev, pact_a, pact_b, low, high, steps, loss,
                   voteLossVars, nationalVars, winnerVars, mainVars, scriptVars>>

NextScenario == DistrictScenario \/ IndifferenceLossEnter \/ IndifferenceLossStep

SpecScenario == InitScenario /\ [][NextScenario]_vars

\* C18: the merged alliance never holds fewer seats than its constituents
\* held together in the baseline allocation of the same district, ties
\* included.
C18_MergerNeverLosesSeats ==
    (pc \in {"call", "search", "returned"}) =>
        baseline_seats <= current_merged_seats

\* no alliance outside the merger has exactly the merged alliance's votes, so
\* no tie of the merged alliance goes down to the identifiers
NoRawTieWithMerged ==
    \A i, j \in 1..Len(merged_pacts) :
        (merged_pacts[i].code = merged_label /\ merged_pacts[j].code # merged_label)
            => merged_pacts[i].votes # merged_pacts[j].votes

\* C18, amended: when no alliance outside the merger has exactly the merged
\* alliance's vote total, the merged alliance never holds fewer seats than its
\* constituents held together in the baseline allocation of the same district.
C18_MergerNeverLosesSeatsWithoutRawTie ==
    (pc \in {"call", "search", "returned"} /\ NoRawTieWithMerged) =>
        baseline_seats <= current_merged_seats

\* two alliances merged that held a seat in the baseline and hold more
\* together, an equal quotient of another alliance being outvoted
C18_Witness ==
    /\ pc = "returned"
    /\ NoRawTieWithMerged
    /\ Len(merged_original_codes) = 2
    /\ baseline_seats >= 1
    /\ current_merged_seats > baseline_seats
    /\ FLess(Zero, loss)

----------------------------------------------------------------------------
(* simulation.py : every caller of _pacts_with_vote_loss, the direct call
   with the caller's own arguments, the search of one district of main and
   the national search that ends main *)

\* no --pact-a: the call is not one of main's
CalledDirectly == pact_a = <<>>

\* main holds the alliances of the district it is working on
InDistrict == pact_a # <<>> /\ pacts # <<>>

\* main has left its loop over the districts
AfterDistricts == pact_a # <<>> /\ pacts = <<>>

InitLossCalls == InitVoteLoss \/ InitScenario \/ InitMain

DirectCall == CalledDirectly /\ PactsWithVoteLoss

\* line 99
DistrictLossEnter == InDistrict /\ IndifferenceLossEnter

DistrictLossStep == InDistrict /\ IndifferenceLossStep

\* lines 151-153
NationalEnter == AfterDistricts /\ NationalLossEnter

NationalStep == AfterDistricts /\ NationalLossStep

NextLossCalls ==
    \/ DirectCall
    \/ DistrictScenario
    \/ DistrictLossEnter
    \/ DistrictLossStep
    \/ MainLoopStep
    \/ MainLoopExit
    \/ NationalEnter
    \/ NationalStep

SpecLossCalls == InitLossCalls /\ [][NextLossCalls]_vars

InRange(f) == FLeq(Zero, f) /\ FLeq(f, One)

CarriesLabel(mp, label) == \E i \in 1..Len(mp) : mp[i].code = label

\* C13: _pacts_with_vote_loss raises ValueError for a fraction outside [0, 1],
\* whether or not the merged alliance is in the list, raises ValueError for a
\* fraction in [0, 1] when no alliance carries the merged label, and returns
\* a list for every fraction in [0, 1], 0 and 1 included, when one does; the
\* searches of main, per district and national, never end in either error.
C13_VoteLossFailures ==
    /\ (CalledDirectly /\ pc = "returned") =>
        /\ ~InRange(loss_fraction) =>
               raised = "ValueError: loss fraction out of range"
        /\ (InRange(loss_fraction) /\ ~CarriesLabel(merged_pacts, merged_label)) =>
               raised = "ValueError: merged pact not found"
        /\ (InRange(loss_fraction) /\ CarriesLabel(merged_pacts, merged_label)) =>
               /\ raised = "none"
               /\ Len(scenario) = Len(merged_pacts)
    /\ ~CalledDirectly => (raised = "none" /\ pc # "raised")

\* a fraction above 1 and a list without the merged alliance: both checks
\* would fail, the range check speaks
C13_Witness ==
    /\ CalledDirectly
    /\ pc = "returned"
    /\ FLess(One, loss_fraction)
    /\ ~CarriesLabel(merged_pacts, merged_label)
    /\ raised = "ValueError: loss fraction out of range"

\* a search of one district that went through its iterations
C13_DistrictSearchWitness ==
    /\ InDistrict
    /\ pc = "returned"
    /\ steps > 1
    /\ FLess(Zero, loss)

\* a national search that went through its iterations
C13_NationalSearchWitness ==
    /\ AfterDistricts
    /\ pc = "returned"
    /\ steps > 1
    /\ FLess(Zero, loss)

\* the ends of the range are in it
C13_EndsWitness ==
    /\ CalledDirectly
    /\ pc = "returned"
    /\ loss_fraction = One
    /\ raised = "none"
    /\ scenario # <<>>

----------------------------------------------------------------------------
(* simulation.py : the sub-groups of an alliance and their seats
   (_candidate_subpact_code, _subpact_allocation) *)

MaxSubCandidates == 3
MaxSubVotes == 1
MaxSubSeats == 1

IND == <<"I", "N", "D">>

\* the parties of the alliance
PartyNames == {<<"P">>, <<"R">>}

\* the party column of a candidate row, as _parse_str leaves it: trimmed and
\* not empty
SubpactLabels ==
    PartyNames \cup {IND, <<"i", "n", "d">>, <<"I", "N", "D", " ", "-", " ", "P">>}

SubpactVoteLists(k) ==
    {vs \in [1..k -> 0..MaxSubVotes] : \A i \in 1..(k - 1) : vs[i] >= vs[i + 1]}

SubpactCandidateLists ==
    UNION {
        {[i \in 1..k |->
            [number |-> i, name |-> CandidateName(i), party |-> ps[i],
             votes |-> vs[i], percentage |-> None, elected |-> FALSE,
             pact_code |-> <<"A">>]] :
            ps \in [1..k -> SubpactLabels], vs \in SubpactVoteLists(k)}
        : k \in 0..MaxSubCandidates}

InitSubpact ==
    /\ pc = "call"
    /\ raised = "none"
    /\ seats \in 0..MaxSubSeats
    /\ pact \in {PactResultOf(<<"A">>, 1, cl) : cl \in SubpactCandidateLists}
    /\ winners = <<>>
    /\ DhondtIdle
    /\ LossIdle
    /\ VoteLossIdle
    /\ NationalIdle
    /\ MergeIdle
    /\ MainIdle
    /\ ScriptIdle

\* allocation = _subpact_allocation(pact, seats)
SubpactAllocation ==
    /\ pc = "call"
    /\ allocation' = subpact_allocation(pact.candidates, seats)
    /\ pc' = "returned"
    /\ UNCHANGED <<seats, raised, pacts, prev, lossVars, voteLossVars, nationalVars,
                   mergeVars, winnerVars, mainVars, scriptVars>>

NextSubpact == SubpactAllocation

SpecSubpact == InitSubpact /\ [][NextSubpact]_vars

Spaces(k) == [i \in 1..k |-> " "]

\* the label reads IND, a dash and party p, in the given letter case and with
\* the given blanks around the dash
IsIndependentOf(label, p, inds, blanks) ==
    \E ind \in inds : \E a, b \in blanks :
        label = ind \o Spaces(a) \o <<"-">> \o Spaces(b) \o p

\* the sub-group the sentence gives a label, read to the letter: "IND - P"
\* and "IND" as written there
SubGroupAsWritten(label) ==
    IF \E p \in PartyNames : IsIndependentOf(label, p, {IND}, {1})
    THEN CHOOSE p \in PartyNames : IsIndependentOf(label, p, {IND}, {1})
    ELSE label

\* the same, IND in either letter case and any blanks around the dash
SubGroupIgnoringCase(label) ==
    LET inds == {IND, <<"i", "n", "d">>}
    IN  IF \E p \in PartyNames : IsIndependentOf(label, p, inds, 0..2)
        THEN CHOOSE p \in PartyNames : IsIndependentOf(label, p, inds, 0..2)
        ELSE IF label \in inds THEN IND
        ELSE label

\* the votes of the candidates the sentence puts in sub-group g
PooledVotes(g) ==
    SumSeq([i \in 1..Len(pact.candidates) |->
                IF SubGroupIgnoringCase(pact.candidates[i].party) = g
                THEN pact.candidates[i].votes ELSE 0])

\* the sub-groups with votes, each with its pooled votes
PooledSubGroups ==
    LET groups == KeysInOrder([i \in 1..Len(pact.candidates) |->
                                   SubGroupIgnoringCase(pact.candidates[i].party)])
    IN  SelectSeq([i \in 1..Len(groups) |->
                       [code |-> groups[i], votes |-> PooledVotes(groups[i])]],
                  LAMBDA g : g.votes > 0)

\* C16: _candidate_subpact_code maps a candidate labelled "IND - P" to
\* sub-group P and a candidate labelled "IND" to sub-group "IND"; any other
\* non-empty party label is its own sub-group unchanged.
C16_SubGroupOfLabel ==
    pc = "returned" =>
        \A i \in 1..Len(pact.candidates) :
            candidate_subpact_code(pact.candidates[i]) =
                SubGroupAsWritten(pact.candidates[i].party)

\* C16, amended: _candidate_subpact_code maps a candidate whose label is IND,
\* a dash and P (IND in any letter case, any blanks around the dash) to
\* sub-group P, so that its votes are pooled with party P's candidates in the
\* sub-allocation, maps a candidate labelled IND in any letter case to
\* sub-group "IND", separate from every party, and leaves any other
\* non-empty party label as its own sub-group.
C16_SubGroupOfLabelIgnoringCase ==
    pc = "returned" =>
        /\ \A i \in 1..Len(pact.candidates) :
            /\ candidate_subpact_code(pact.candidates[i]) =
                   SubGroupIgnoringCase(pact.candidates[i].party)
            /\ pact.candidates[i].party \in {IND, <<"i", "n", "d">>} =>
                   candidate_subpact_code(pact.candidates[i]) \notin PartyNames
        /\ seats > 0 =>
            allocation = dhondt_allocation(AsFloatVotes(PooledSubGroups), seats)

\* an independent of party P and a candidate of P, neither with more votes
\* than the candidate of party R, take the seat together for sub-group P
C16_Witness ==
    /\ pc = "returned"
    /\ seats = 1
    /\ \E i, j, k \in 1..Len(pact.candidates) :
        /\ pact.candidates[i].party = <<"I", "N", "D", " ", "-", " ", "P">>
        /\ pact.candidates[j].party = <<"P">>
        /\ pact.candidates[k].party = <<"R">>
        /\ pact.candidates[i].votes > 0
        /\ pact.candidates[j].votes > 0
        /\ pact.candidates[k].votes >= pact.candidates[i].votes
        /\ pact.candidates[k].votes >= pact.candidates[j].votes
    /\ allocation = (<<"P">> :> 1)

----------------------------------------------------------------------------
(* simulation.py : the module body, statement by statement, when the file is
   run as a script and when it is imported *)

\* the districts of a run: the candidates all carry a party, or none does
ScriptRuns ==
    UNION {SeqsUpTo(MainDistricts({party}), MaxMainDistricts) :
            party \in {<<>>, <<"P">>}}

InitScript ==
    /\ pc = "module"
    /\ raised = "none"
    /\ seats = 0
    /\ module_pc = "start"
    /\ dunder_name \in {"__main__", "analisis_electoral.simulation"}
    /\ defined = {}
    /\ main_circunscripciones \in ScriptRuns
    /\ pact_a = <<"A">>
    /\ pact_b = <<"B">>
    /\ merged_original_codes = <<>>
    /\ MainStart
    /\ DhondtIdle
    /\ LossIdle
    /\ VoteLossIdle
    /\ NationalIdle
    /\ WinnersIdle

\* lines 1-582: the imports and the def statements bind their names
ModuleBody ==
    /\ module_pc = "start"
    /\ defined' = ModuleNames \ {"_IND_PARTY_PATTERN"}
    /\ module_pc' = "guard"
    /\ UNCHANGED <<pc, seats, raised, dhondtVars, lossVars, voteLossVars, nationalVars,
                   mergeVars, winnerVars, mainVars, dunder_name>>

\* lines 583-584: if __name__ == "__main__": main()
NameGuard ==
    /\ module_pc = "guard"
    /\ IF dunder_name = "__main__"
       THEN /\ module_pc' = "in_main"
            /\ pc' = "loop"
       ELSE /\ module_pc' = "pattern"
            /\ pc' = pc
    /\ UNCHANGED <<seats, raised, dhondtVars, lossVars, voteLossVars, nationalVars,
                   mergeVars, winnerVars, mainVars, dunder_name, defined>>

\* main() of line 584 returns and the module body goes on
MainReturns ==
    /\ module_pc = "in_main"
    /\ pc = "returned"
    /\ module_pc' = "pattern"
    /\ pc' = "module"
    /\ UNCHANGED <<seats, raised, dhondtVars, lossVars, voteLossVars, nationalVars,
                   mergeVars, winnerVars, mainVars, dunder_name, defined>>

\* line 585: _IND_PARTY_PATTERN = re.compile(...)
BindPattern ==
    /\ module_pc = "pattern"
    /\ defined' = defined \cup {"_IND_PARTY_PATTERN"}
    /\ module_pc' = "loaded"
    /\ UNCHANGED <<pc, seats, raised, dhondtVars, lossVars, voteLossVars, nationalVars,
                   mergeVars, winnerVars, mainVars, dunder_name>>

\* the importer of analisis_electoral.simulation calls main
ImporterCallsMain ==
    /\ module_pc = "loaded"
    /\ dunder_name # "__main__"
    /\ pc = "module"
    /\ pc' = "loop"
    /\ UNCHANGED <<seats, raised, dhondtVars, lossVars, voteLossVars, nationalVars,
                   mergeVars, winnerVars, mainVars, scriptVars>>

NextScript ==
    \/ ModuleBody
    \/ NameGuard
    \/ MainReturns
    \/ BindPattern
    \/ ImporterCallsMain
    \/ MainLoopStep
    \/ MainLoopExit
    \/ NationalLossEnter
    \/ NationalLossStep

SpecScript == InitScript /\ [][NextScript]_vars

\* main is running
InMain == pc \in {"loop", "call", "search", "returned", "raised"}

\* C19: when simulation.py is run as a script, every module-level name main
\* reaches, _IND_PARTY_PATTERN among them, is defined while main runs, and
\* the run ends without a NameError.
C19_NamesDefinedWhenMainRuns ==
    (dunder_name = "__main__" /\ InMain) =>
        /\ ModuleNames \subseteq defined
        /\ raised = "none"

\* a script run over districts whose candidates carry a party: the NameError
C19_Witness ==
    /\ dunder_name = "__main__"
    /\ module_pc = "in_main"
    /\ pc = "raised"
    /\ raised = "NameError: name '_IND_PARTY_PATTERN' is not defined"
    /\ "_IND_PARTY_PATTERN" \notin defined

\* the same module imported: main finds every name and raises nothing
C19_ImportedNamesDefined ==
    (dunder_name # "__main__" /\ InMain) =>
        /\ ModuleNames \subseteq defined
        /\ raised = "none"

\* an imported run over districts whose candidates carry a party, to its end
C19_ImportedWitness ==
    /\ dunder_name # "__main__"
    /\ pc = "returned"
    /\ processed_any
    /\ \E i \in 1..Len(main_circunscripciones) :
        main_circunscripciones[i].pacts[1].candidates[1].party = <<"P">>

\* a script run over districts whose candidates carry no party reaches its end
C19_NoPartyWitness ==
    /\ dunder_name = "__main__"
    /\ module_pc = "loaded"
    /\ processed_any
    /\ raised = "none"

====
